---- MODULE Spec2Model ----
(***************************************************************************)
(* Model of the Usbrelay controller of src/src/usbrelay.cpp: the two       *)
(* history buffers, the raw send / recieve primitives, the initBoard       *)
(* handshake, the two setState overloads with getState, the connection     *)
(* (openCom / closeCom) and the accessors.                                 *)
(*                                                                         *)
(* Bytes are 8-bit patterns 0..255 (char, uint8_t and the int -> uint8_t   *)
(* conversions of the code all keep the low 8 bits).  The serial transport *)
(* (serialib) is an external collaborator: the status of each writeChar    *)
(* and readChar, and the byte a read delivers, are inputs of the actions.  *)
(* One action is one whole call of a method.                               *)
(***************************************************************************)
EXTENDS Integers, Sequences, FiniteSets

VARIABLES
    relaynumber,  \* Usbrelay::relaynumber
    bufferrx,     \* Usbrelay::bufferrx, cells 0..BufLen-1
    buffertx,     \* Usbrelay::buffertx, cells 0..BufLen-1
    layout,       \* what lies one past the end of each buffer in the object
    io,           \* transport operations of the last call, in order
    call,         \* the last call: name, arguments, result, state before it
    txins,        \* bytes handed to buffertxAdd, most recent first (history)
    rxins,        \* bytes handed to bufferrxAdd, most recent first (history)
    nOps,         \* number of calls made so far
    dev,          \* Usbrelay::boardinterface: "null", "open", "closed", "fault"
    device,       \* Usbrelay::device
    baudrate      \* Usbrelay::baudrate

vars == <<relaynumber, bufferrx, buffertx, layout, io, call, txins, rxins, nOps,
          dev, device, baudrate>>

----------------------------------------------------------------------------
(* Bounds of the model *)

\* sizeof(bufferrx) = sizeof(buffertx): the arrays are declared in
\* usbrelay.hpp; every capacity is shifted by the same loop.
BufLen == 2
\* calls per run
MaxOps == 3
\* largest nbyte given to recieve
MaxRecv == 3

(* Values the inputs are drawn from *)

Byte == 0..255
\* relaynumber argument of the constructor (any int; the code never checks it)
Guesses == {3, 8}
\* the buffers are not initialised by the constructor: cell k starts as
\* f + k for an f of InitFill (an indeterminate, non-uniform content)
InitFill == {0, 165}
\* writeChar: 1 on success, -1 on failure
WriteStatus == {1, -1}
\* readChar: 1 on success, 0 on timeout, negative on error
ReadFail == {0, -1}
\* bytes a successful read delivers: the three sentinels and another byte
RxBytes == {173, 171, 172, 0}
\* tempbuffer[0] after a read that delivered nothing (uninitialised local)
Garbage == {0, 173}
\* what the never assigned int status of recieve may hold
Indeterminate == {1, -1}
ReadOutcomes ==
    {[st |-> 1, b |-> b] : b \in RxBytes} \cup
    {[st |-> s, b |-> g] : s \in ReadFail, g \in Garbage}
\* bitmask commands and raw bytes of the bounded runs
Cmds == {1, 2}
\* per-relay arrays of the bounded runs, n entries: all on, and relay 0 alone
Arrays(n) == {[i \in 1..n |-> 1], [i \in 1..n |-> IF i = 1 THEN 1 ELSE 0]}
\* every per-relay array of n entries in {0, 1}
BoolArrays(n) == [1..n -> {0, 1}]
\* every per-relay array of n entries in {0, 1, 2}
IntArrays(n) == [1..n -> {0, 1, 2}]
\* relay counts of the three boards
Boards == {2, 4, 8}
\* object layouts: which cell follows the last cell of each buffer
Layouts == {"pad", "rx_tx", "tx_rx"}
\* port names given to setPort, and to the constructor
Ports == {"ttyACM0", "ttyACM1"}
CtorPorts == {"ttyACM0"}
\* the transport on a device d that is not open delivers nothing: every
\* write and read on it fails
WriteStatusOf(d) == IF d = "open" THEN WriteStatus ELSE {-1}
ReadOutcomesOf(d) == IF d = "open" THEN ReadOutcomes ELSE {o \in ReadOutcomes : o.st # 1}

----------------------------------------------------------------------------
(* 8-bit arithmetic *)

\* ~x kept to 8 bits
Not8(b) == 255 - (b % 256)
\* (x << 1) kept to 8 bits (uint8_t com)
Shl8(b) == (2 * b) % 256

----------------------------------------------------------------------------
(* The buffers.  A memory is [rx |-> bufferrx, tx |-> buffertx, top |-> t], *)
(* t the highest index a store of the call has used.                        *)

Max(a, b) == IF a > b THEN a ELSE b
\* the buffers of a controller state s, as a memory
Mem(s) == [rx |-> s.rx, tx |-> s.tx, top |-> s.top]

\* buf[k] = v.  k = BufLen is one past the end of the array: the byte lands
\* in whatever the object holds there (the head of the other buffer when the
\* two arrays are adjacent, otherwise a byte outside both histories).
Store(m, lay, buf, k, v) ==
    IF k < BufLen THEN [m EXCEPT ![buf][k] = v, !.top = Max(@, k)]
    ELSE IF buf = "rx" /\ lay = "rx_tx" THEN [m EXCEPT !["tx"][0] = v, !.top = Max(@, k)]
    ELSE IF buf = "tx" /\ lay = "tx_rx" THEN [m EXCEPT !["rx"][0] = v, !.top = Max(@, k)]
    ELSE [m EXCEPT !.top = Max(@, k)]

\* for (k = length - 1; k >= 0; k--) buf[k + 1] = buf[k];
RECURSIVE ShiftLoop(_, _, _, _)
ShiftLoop(m, lay, buf, k) ==
    IF k < 0 THEN m
    ELSE ShiftLoop(Store(m, lay, buf, k + 1, m[buf][k]), lay, buf, k - 1)

bufferrxAdd(m, lay, elt) ==
    Store(ShiftLoop(m, lay, "rx", BufLen - 1), lay, "rx", 0, elt)

buffertxAdd(m, lay, elt) ==
    Store(ShiftLoop(m, lay, "tx", BufLen - 1), lay, "tx", 0, elt)

\* history of the bytes handed to an Add, most recent first, BufLen + 1 kept
Remember(h, elt) == SubSeq(<<elt>> \o h, 1, IF Len(h) < BufLen + 1 THEN Len(h) + 1 ELSE BufLen + 1)

----------------------------------------------------------------------------
(* The methods, as functions of the controller state                        *)
(*   s = [rn, rx, tx, io, ti, ri, ret, top, dev]                            *)
(* rn, rx, tx: relaynumber and the two buffers; io: the transport log of    *)
(* the call; ti, ri: the insert histories; ret: the value returned; top:    *)
(* the highest buffer index stored to; dev: the state of boardinterface.    *)
(* os_sleep changes no state and is left out.                               *)

\* send as it would be if the status of writeChar were dropped
sendSwallow(s, lay, data, st) ==
    LET m == buffertxAdd(Mem(s), lay, data)
    IN  [s EXCEPT !.rx = m.rx,
                  !.tx = m.tx,
                  !.top = m.top,
                  !.ti = Remember(@, data),
                  !.io = Append(@, [op |-> "w", b |-> m.tx[0], st |-> st]),
                  !.ret = 1]

\* int Usbrelay::send(char data, unsigned long milliseconds); st is what
\* writeChar returns
send(s, lay, data, st) ==
    LET m == buffertxAdd(Mem(s), lay, data)
    IN  [s EXCEPT !.rx = m.rx,
                  !.tx = m.tx,
                  !.top = m.top,
                  !.ti = Remember(@, data),
                  !.io = Append(@, [op |-> "w", b |-> m.tx[0], st |-> st]),
                  !.ret = st]

\* the body of the loop of recieve, for k = k..nbyte; outs[k] is what the
\* k-th readChar returns and leaves in tempbuffer[0]
RECURSIVE recieveLoop(_, _, _, _, _)
recieveLoop(s, lay, k, nbyte, outs) ==
    IF k > nbyte THEN s
    ELSE LET o == outs[k]
             m == bufferrxAdd(Mem(s), lay, o.b)
             s1 == [s EXCEPT !.rx = m.rx,
                             !.tx = m.tx,
                             !.top = m.top,
                             !.ri = Remember(@, o.b),
                             !.io = Append(@, [op |-> "r", b |-> o.b, st |-> o.st]),
                             !.ret = o.st]
         IN  IF o.st # 1 THEN s1
             ELSE recieveLoop(s1, lay, k + 1, nbyte, outs)

\* recieve as it would be if a failed read did not end the loop
RECURSIVE recieveAllLoop(_, _, _, _, _)
recieveAllLoop(s, lay, k, nbyte, outs) ==
    IF k > nbyte THEN s
    ELSE LET o == outs[k]
             m == bufferrxAdd(Mem(s), lay, o.b)
         IN  recieveAllLoop([s EXCEPT !.rx = m.rx,
                                      !.tx = m.tx,
                                      !.top = m.top,
                                      !.ri = Remember(@, o.b),
                                      !.io = Append(@, [op |-> "r", b |-> o.b, st |-> o.st]),
                                      !.ret = o.st],
                            lay, k + 1, nbyte, outs)

recieveAll(s, lay, nbyte, outs) == recieveAllLoop(s, lay, 1, nbyte, outs)

\* int Usbrelay::recieve(int nbyte), nbyte >= 1
recieve(s, lay, nbyte, outs) == recieveLoop(s, lay, 1, nbyte, outs)

\* int Usbrelay::recieve(int nbyte), nbyte <= 0: the loop body never runs,
\* boardinterface is not used, and status is returned as declared
recieveNone(s, junk) == [s EXCEPT !.ret = junk]

\* configure as it would be if the status of the 0x51 send were not tested
configureUnchecked(s, lay, st2, st3) ==
    LET s2 == send(send(s, lay, 81, st2), lay, 255, st3)
    IN  IF s2.ret # 1 THEN [s2 EXCEPT !.ret = -1] ELSE [s2 EXCEPT !.ret = 1]

\* the two follow-up sends of a recognised sentinel (the same in each case)
configure(s, lay, st2, st3) ==
    LET s1 == send(s, lay, 81, st2)
    IN  IF s1.ret # 1 THEN [s1 EXCEPT !.ret = -1]
        ELSE LET s2 == send(s1, lay, 255, st3)
             IN  IF s2.ret # 1 THEN [s2 EXCEPT !.ret = -1]
                 ELSE [s2 EXCEPT !.ret = 1]

\* sentinel as it would be with the cases of 0xab and 0xac exchanged
sentinelSwapped(data) ==
    IF data = 173 THEN 2
    ELSE IF data = 171 THEN 8
    ELSE IF data = 172 THEN 4
    ELSE 0

\* sentinel as it would be if the last case were the default of the switch
sentinelDefault(data) ==
    IF data = 173 THEN 2
    ELSE IF data = 171 THEN 4
    ELSE 8

\* the relay count of a sentinel byte, 0 when the switch has no case for it
sentinel(data) ==
    IF data = 173 THEN 2
    ELSE IF data = 171 THEN 4
    ELSE IF data = 172 THEN 8
    ELSE 0

\* int Usbrelay::initBoard()
initBoard(s, lay, st1, r, st2, st3) ==
    LET s1 == send(s, lay, 80, st1)
    IN  IF s1.ret # 1 THEN [s1 EXCEPT !.ret = -1]
        ELSE LET s2 == recieve(s1, lay, 1, <<r>>)
             IN  IF s2.ret # 1 THEN [s2 EXCEPT !.ret = -1]
                 ELSE LET data == s2.rx[0]
                      IN  IF sentinel(data) # 0
                          THEN configure([s2 EXCEPT !.rn = sentinel(data)], lay, st2, st3)
                          ELSE [s2 EXCEPT !.ret = 1]

\* encodeInt as it would be without the inversion for the larger boards
encodeIntPlain(rn, command) ==
    IF rn = 2 THEN command % 4
    ELSE command % 256

\* the command byte of setState(int command), command >= 0
encodeInt(rn, command) ==
    IF rn = 2 THEN command % 4
    ELSE Not8(command)

\* int Usbrelay::setState(int command)
setStateInt(s, lay, command, st) ==
    LET s1 == send(s, lay, encodeInt(s.rn, command), st)
    IN  IF s1.ret # 1 THEN [s1 EXCEPT !.ret = -1] ELSE [s1 EXCEPT !.ret = 1]

\* the loops of setState(int commandarray[]): for k = k..0, shift com left
\* and set its low bit when commandarray[k] equals on.  arr[i + 1] is
\* commandarray[i].
RECURSIVE foldArray(_, _, _, _)
foldArray(com, arr, k, on) ==
    IF k < 0 THEN com
    ELSE foldArray(IF arr[k + 1] = on THEN (Shl8(com) + 1) % 256 ELSE Shl8(com),
                   arr, k - 1, on)

\* the command byte of setState(int commandarray[]), rn >= 1 entries
encodeArray(rn, arr) ==
    IF rn = 2 THEN foldArray(arr[rn] % 256, arr, rn - 2, 1)
    ELSE foldArray(IF arr[rn] = 0 THEN 1 ELSE 0, arr, rn - 2, 0)

\* int Usbrelay::setState(int commandarray[])
setStateArray(s, lay, arr, st) ==
    LET s1 == send(s, lay, encodeArray(s.rn, arr), st)
    IN  IF s1.ret # 1 THEN [s1 EXCEPT !.ret = -1] ELSE [s1 EXCEPT !.ret = 1]

\* getState as it would be without the inversion for the larger boards
getStateOfPlain(rn, tx) == tx[0]

\* char Usbrelay::getState(), of relaynumber rn and transmit buffer tx
getStateOf(rn, tx) == IF rn = 2 THEN tx[0] ELSE Not8(tx[0])

getState == getStateOf(relaynumber, buffertx)

\* char Usbrelay::getrx()
getrx == bufferrx[0]

\* int Usbrelay::getRelayNumber()
getRelayNumber == relaynumber

\* openCom as it would be if the result of isDeviceOpen were not tested
openComBlind(s, isOpen) ==
    [s EXCEPT !.dev = IF isOpen THEN "open" ELSE "closed",
              !.ret = 1]

\* int Usbrelay::openCom(): a new serialib replaces boardinterface; isOpen is
\* what isDeviceOpen returns after openDevice
openCom(s, isOpen) ==
    [s EXCEPT !.dev = IF isOpen THEN "open" ELSE "closed",
              !.ret = IF ~isOpen THEN -1 ELSE 1]

\* int Usbrelay::closeCom(): isOpen is what isDeviceOpen returns after
\* closeDevice
closeCom(s, isOpen) ==
    [s EXCEPT !.dev = IF isOpen THEN "open" ELSE "closed",
              !.ret = IF isOpen THEN -1 ELSE 1]

\* an accessor as it would be if it stored what it returns at the head of
\* the transmit buffer
answerStoring(s, v) == [s EXCEPT !.ret = v, !.tx = [@ EXCEPT ![0] = v % 256]]

\* the body of an accessor: return v
answer(s, v) == [s EXCEPT !.ret = v]

\* int Usbrelay::getSpeed()
getSpeed == baudrate

\* std::string Usbrelay::getPort()
getPort == device

\* the baud rate the constructor sets
Baud == 9600

----------------------------------------------------------------------------
(* State machine *)

\* content of a buffer nothing has written yet
Uninit(f) == [k \in 0..(BufLen - 1) |-> (f + k) % 256]

\* Usbrelay::Usbrelay(port, relaynumber): relaynumber is the caller's guess;
\* the buffers are left uninitialised.
Construct(port, guess, frx, ftx, lay) ==
    /\ device = port
    /\ baudrate = Baud
    /\ dev = "null"
    /\ relaynumber = guess
    /\ bufferrx = Uninit(frx)
    /\ buffertx = Uninit(ftx)
    /\ layout = lay
    /\ io = << >>
    /\ call = [name |-> "Usbrelay", cmd |-> 0, arr |-> << >>, n |-> 0, ret |-> 0,
               relay0 |-> guess,
               rx0 |-> Uninit(frx),
               tx0 |-> Uninit(ftx),
               ti0 |-> << >>, ri0 |-> << >>,
               dev0 |-> "null", port0 |-> port, top |-> 0, sret |-> ""]
    /\ txins = << >>
    /\ rxins = << >>
    /\ nOps = 0

Init ==
    \E port \in CtorPorts, guess \in Guesses, frx \in InitFill, ftx \in InitFill,
       lay \in Layouts :
        Construct(port, guess, frx, ftx, lay)

\* the controller as a call finds it
Cur == [rn |-> relaynumber, rx |-> bufferrx, tx |-> buffertx,
        io |-> << >>, ti |-> txins, ri |-> rxins, ret |-> 0,
        top |-> 0, dev |-> dev]

\* the controller as a call leaves it, and the record of the call; port is
\* the device member and sret a returned string
Leave(name, cmd, arr, n, s, port, sret) ==
    /\ relaynumber' = s.rn
    /\ bufferrx' = s.rx
    /\ buffertx' = s.tx
    /\ io' = s.io
    /\ txins' = s.ti
    /\ rxins' = s.ri
    /\ dev' = s.dev
    /\ device' = port
    /\ call' = [name |-> name, cmd |-> cmd, arr |-> arr, n |-> n, ret |-> s.ret,
                relay0 |-> relaynumber, rx0 |-> bufferrx, tx0 |-> buffertx,
                ti0 |-> txins, ri0 |-> rxins,
                dev0 |-> dev, port0 |-> device, top |-> s.top, sret |-> sret]
    /\ nOps' = nOps + 1
    /\ UNCHANGED <<layout, baudrate>>

Return(name, cmd, arr, n, s) == Leave(name, cmd, arr, n, s, device, "")

\* boardinterface holds a serialib: the calls that use it can run
Usable == dev \in {"open", "closed"}

OpenCom(isOpen) ==
    /\ dev # "fault"
    /\ Return("openCom", 0, << >>, 0, openCom(Cur, isOpen))

\* closeDevice leaves a device that was not open not open
CloseCom(isOpen) ==
    /\ Usable
    /\ isOpen => dev = "open"
    /\ Return("closeCom", 0, << >>, 0, closeCom(Cur, isOpen))

\* send, recieve, initBoard, setState or closeCom before the first openCom:
\* boardinterface is a null unique_ptr and the call dereferences it; the
\* process ends inside the call
Fault ==
    /\ dev = "null"
    /\ Return("fault", 0, << >>, 0, [Cur EXCEPT !.dev = "fault"])

\* int Usbrelay::setPort(const std::string &port)
SetPort(port) ==
    /\ dev # "fault"
    /\ Leave("setPort", 0, << >>, 0, answer(Cur, 1), port, "")

GetState ==
    /\ dev # "fault"
    /\ Return("getState", 0, << >>, 0, answer(Cur, getState))

Getrx ==
    /\ dev # "fault"
    /\ Return("getrx", 0, << >>, 0, answer(Cur, getrx))

GetRelayNumber ==
    /\ dev # "fault"
    /\ Return("getRelayNumber", 0, << >>, 0, answer(Cur, getRelayNumber))

GetSpeed ==
    /\ dev # "fault"
    /\ Return("getSpeed", 0, << >>, 0, answer(Cur, getSpeed))

GetPort ==
    /\ dev # "fault"
    /\ Leave("getPort", 0, << >>, 0, answer(Cur, 0), device, getPort)

Send(data, st) ==
    /\ Usable
    /\ Return("send", data, << >>, 0, send(Cur, layout, data, st))

Recieve(nbyte, outs) ==
    /\ Usable
    /\ Return("recieve", 0, << >>, nbyte, recieve(Cur, layout, nbyte, outs))

RecieveNone(junk) ==
    /\ dev # "fault"
    /\ Return("recieveNone", 0, << >>, 0, recieveNone(Cur, junk))

InitBoard(st1, r, st2, st3) ==
    /\ Usable
    /\ Return("initBoard", 0, << >>, 0, initBoard(Cur, layout, st1, r, st2, st3))

SetStateInt(command, st) ==
    /\ Usable
    /\ Return("setState", command, << >>, 0, setStateInt(Cur, layout, command, st))

\* the caller passes one entry per relay
SetStateArray(arr, st) ==
    /\ Usable
    /\ relaynumber >= 1
    /\ Len(arr) = relaynumber
    /\ Return("setStateArray", 0, arr, 0, setStateArray(Cur, layout, arr, st))

DoOpenCom ==
    /\ nOps < MaxOps
    /\ \E isOpen \in BOOLEAN : OpenCom(isOpen)

DoCloseCom ==
    /\ nOps < MaxOps
    /\ \E isOpen \in BOOLEAN : CloseCom(isOpen)

DoFault ==
    /\ nOps < MaxOps
    /\ Fault

DoSetPort ==
    /\ nOps < MaxOps
    /\ \E port \in Ports : SetPort(port)

DoGetState ==
    /\ nOps < MaxOps
    /\ GetState

DoGetrx ==
    /\ nOps < MaxOps
    /\ Getrx

DoGetRelayNumber ==
    /\ nOps < MaxOps
    /\ GetRelayNumber

DoGetSpeed ==
    /\ nOps < MaxOps
    /\ GetSpeed

DoGetPort ==
    /\ nOps < MaxOps
    /\ GetPort

DoSend ==
    /\ nOps < MaxOps
    /\ \E data \in Cmds, st \in WriteStatusOf(dev) : Send(data, st)

DoRecieve ==
    /\ nOps < MaxOps
    /\ \E r \in ReadOutcomesOf(dev) : Recieve(1, <<r>>)

DoRecieveNone ==
    /\ nOps < MaxOps
    /\ \E junk \in Indeterminate : RecieveNone(junk)

DoInitBoard ==
    /\ nOps < MaxOps
    /\ \E st1 \in WriteStatusOf(dev), r \in ReadOutcomesOf(dev),
          st2 \in WriteStatusOf(dev), st3 \in WriteStatusOf(dev) :
           InitBoard(st1, r, st2, st3)

DoSetStateInt ==
    /\ nOps < MaxOps
    /\ \E command \in Cmds, st \in WriteStatusOf(dev) : SetStateInt(command, st)

DoSetStateArray ==
    /\ nOps < MaxOps
    /\ \E arr \in Arrays(relaynumber), st \in WriteStatusOf(dev) : SetStateArray(arr, st)

Next ==
    \/ DoOpenCom
    \/ DoCloseCom
    \/ DoFault
    \/ DoSetPort
    \/ DoGetState
    \/ DoGetrx
    \/ DoGetRelayNumber
    \/ DoGetSpeed
    \/ DoGetPort
    \/ DoSend
    \/ DoRecieve
    \/ DoRecieveNone
    \/ DoInitBoard
    \/ DoSetStateInt
    \/ DoSetStateArray

Spec == Init /\ [][Next]_vars

(* openCom and then one setState call on a constructed controller of a 2,  *)
(* 4 or 8 relay board, over every command byte and every 0/1 array.        *)

InitEnc ==
    \E port \in CtorPorts, guess \in Boards, frx \in InitFill, ftx \in InitFill,
       lay \in Layouts :
        Construct(port, guess, frx, ftx, lay)

FirstOpenCom ==
    /\ call.name = "Usbrelay"
    /\ \E isOpen \in BOOLEAN : OpenCom(isOpen)

EncSetStateInt ==
    /\ call.name = "openCom"
    /\ \E command \in Byte, st \in WriteStatusOf(dev) : SetStateInt(command, st)

EncSetStateArray ==
    /\ call.name = "openCom"
    /\ \E arr \in BoolArrays(relaynumber), st \in WriteStatusOf(dev) :
           SetStateArray(arr, st)

NextEnc == FirstOpenCom \/ EncSetStateInt \/ EncSetStateArray

SpecEnc == InitEnc /\ [][NextEnc]_vars

(* openCom and then one setState(int[]) call, over every array of entries  *)
(* 0, 1 and 2.                                                             *)

ArrSetStateArray ==
    /\ call.name = "openCom"
    /\ \E arr \in IntArrays(relaynumber), st \in WriteStatusOf(dev) :
           SetStateArray(arr, st)

NextArr == FirstOpenCom \/ ArrSetStateArray

SpecArr == InitEnc /\ [][NextArr]_vars

(* openCom and then one recieve call on a constructed controller, over     *)
(* every nbyte up to MaxRecv and every outcome of each read.               *)

RecvN ==
    /\ call.name = "openCom"
    /\ \E nbyte \in 1..MaxRecv :
           \E outs \in [1..nbyte -> ReadOutcomesOf(dev)] : Recieve(nbyte, outs)

NextRecv == FirstOpenCom \/ RecvN

SpecRecv == Init /\ [][NextRecv]_vars

----------------------------------------------------------------------------
(* Properties *)

Min(a, b) == IF a < b THEN a ELSE b
Bit(x, i) == (x \div (2 ^ i)) % 2
\* the bitmask whose bit i is arr[i + 1]
RECURSIVE MaskUpTo(_, _)
MaskUpTo(arr, n) == IF n = 0 THEN 0 ELSE MaskUpTo(arr, n - 1) + arr[n] * (2 ^ (n - 1))
MaskOf(arr) == MaskUpTo(arr, Len(arr))
\* the operations and the written bytes of a transport log
Ops(log) == [i \in 1..Len(log) |-> log[i].op]
AllOk(log) == \A i \in 1..Len(log) : log[i].st = 1
\* buf is old with the bytes ins (most recent first) inserted at the front
Inserted(buf, old, ins) ==
    \A i \in 0..(BufLen - 1) :
        buf[i] = IF i < Len(ins) THEN ins[i + 1] ELSE old[i - Len(ins)]
\* the bytes of a transport log, last first
RECURSIVE Reversed(_)
Reversed(log) ==
    IF log = << >> THEN << >> ELSE Reversed(Tail(log)) \o <<Head(log).b>>

\* C1: setState(m) on a board of N in {2,4,8} relays, m < 2^N, hands exactly
\* one byte to the transport: m AND 3 for N = 2, 255 - m for N = 4 or 8.
C1_WireByte ==
    (call.name = "setState" /\ call.relay0 \in Boards /\ call.cmd < 2 ^ call.relay0)
        => /\ Ops(io) = <<"w">>
           /\ io[1].b = IF call.relay0 = 2
                        THEN Bit(call.cmd, 0) + 2 * Bit(call.cmd, 1)
                        ELSE 255 - call.cmd

C1_Witness ==
    /\ call.name = "setState" /\ call.relay0 = 8 /\ call.cmd = 1
    /\ Len(io) = 1 /\ io[1].b = 254

\* C2: getState() right after a successful setState(m), m < 2^N, N in
\* {2,4,8}, returns m.
C2_RoundTrip ==
    (call.name = "setState" /\ call.ret = 1 /\ call.relay0 \in Boards
        /\ call.cmd < 2 ^ call.relay0)
        => getState = call.cmd

C2_Witness ==
    /\ call.name = "setState" /\ call.ret = 1 /\ call.relay0 = 4 /\ call.cmd = 5
    /\ buffertx[0] = 250 /\ getState = 5

\* C3: setState(A), A of N entries in {0,1}, N in {2,4,8}, writes the byte
\* that setState(m) writes for the m whose bit i is A[i] (all 8 bits).
C3_SameWireByte ==
    (call.name = "setStateArray" /\ call.relay0 \in Boards)
        => /\ Ops(io) = <<"w">>
           /\ io[1].b = encodeInt(call.relay0, MaskOf(call.arr))

\* C4: an initBoard in which no transport operation fails and a sentinel is
\* received sets the relay count to 2 (0xAD), 4 (0xAB) or 8 (0xAC), and its
\* transport operations are: write 0x50, read, write 0x51, write 0xFF.
C4_Handshake ==
    (call.name = "initBoard" /\ AllOk(io) /\ Len(io) >= 2 /\ io[2].op = "r"
        /\ io[2].b \in {173, 171, 172})
        => /\ relaynumber = (IF io[2].b = 173 THEN 2 ELSE IF io[2].b = 171 THEN 4 ELSE 8)
           /\ Ops(io) = <<"w", "r", "w", "w">>
           /\ io[1].b = 80 /\ io[3].b = 81 /\ io[4].b = 255

C4_Witness ==
    /\ call.name = "initBoard" /\ call.ret = 1 /\ call.relay0 = 3
    /\ Len(io) = 4 /\ io[2].b = 171 /\ relaynumber = 4

\* C5: when the probe send and the read succeed and the byte is no sentinel,
\* initBoard returns 1, the relay count is what it was before the call and
\* 0x50 is the only byte written.
C5_UnknownByte ==
    (call.name = "initBoard" /\ Len(io) >= 2 /\ io[1].st = 1 /\ io[2].st = 1
        /\ io[2].b \notin {173, 171, 172})
        => /\ call.ret = 1
           /\ relaynumber = call.relay0
           /\ Ops(io) = <<"w", "r">>
           /\ io[1].b = 80

C5_Witness ==
    /\ call.name = "initBoard" /\ call.ret = 1 /\ Len(io) = 2 /\ io[2].b = 0
    /\ call.relay0 = 3 /\ relaynumber = 3

\* C6: after an initBoard that returned 1, the relay count is 2, 4 or 8.
C6_CountAfterInit ==
    (call.name = "initBoard" /\ call.ret = 1) => relaynumber \in Boards

\* C7: initBoard returns 1 exactly when every send and read it made returned
\* 1 and -1 otherwise; a failed step is the last transport operation of the
\* call; the steps are write 0x50, read, write 0x51, write 0xFF, each at
\* most once and in this order.
C7_AbortOnFailure ==
    call.name = "initBoard"
        => /\ call.ret = (IF AllOk(io) THEN 1 ELSE -1)
           /\ \A i \in 1..(Len(io) - 1) : io[i].st = 1
           /\ Len(io) \in 1..4
           /\ \A i \in 1..Len(io) :
                  /\ io[i].op = <<"w", "r", "w", "w">>[i]
                  /\ i # 2 => io[i].b = <<80, 0, 81, 255>>[i]

C7_Witness ==
    /\ call.name = "initBoard" /\ call.ret = -1
    /\ Len(io) = 3 /\ io[3].st = -1 /\ io[3].b = 81

\* C8: a send whose transport write fails returns the status of that write,
\* made one write, and left the transmit buffer as it was with the byte
\* inserted at the front; a setState whose send did not return 1 returns -1.
C8_SendFailure ==
    /\ (call.name = "send" /\ Len(io) >= 1 /\ io[1].st # 1)
           => /\ call.ret = io[1].st
              /\ Ops(io) = <<"w">>
              /\ io[1].b = call.cmd
              /\ Inserted(buffertx, call.tx0, <<call.cmd>>)
    /\ (call.name \in {"setState", "setStateArray"} /\ ~AllOk(io))
           => (call.ret = -1 /\ Len(io) = 1)

C8_Witness ==
    /\ call.name = "send" /\ call.ret = -1 /\ io[1].st = -1
    /\ call.tx0[0] # call.cmd /\ buffertx[0] = call.cmd /\ buffertx[1] = call.tx0[0]

C10_BufferDiscipline ==
    /\ \A i \in 1..Min(Len(txins), BufLen) : buffertx[i - 1] = txins[i]
    /\ \A i \in 1..Min(Len(rxins), BufLen) : bufferrx[i - 1] = rxins[i]

\* C11: openCom returns 1 exactly when the transport reports the device open
\* after the attempt, closeCom returns 1 exactly when it reports it not open
\* after closeDevice; openCom makes no transport write or read.
C11_OpenClose ==
    /\ call.name = "openCom"
           => /\ call.ret = (IF dev = "open" THEN 1 ELSE -1)
              /\ io = << >>
    /\ call.name = "closeCom"
           => call.ret = (IF dev = "open" THEN -1 ELSE 1)

C11_Witness ==
    /\ call.name = "closeCom" /\ call.dev0 = "open" /\ call.ret = -1 /\ dev = "open"

\* the logical state a wire byte b stands for on a board of rn relays
Decode(rn, b) == IF rn = 2 THEN b ELSE 255 - b
\* the positions of the writes of a transport log that succeeded
Written(log) == {i \in 1..Len(log) : log[i].op = "w" /\ log[i].st = 1}
Last(S) == CHOOSE i \in S : \A j \in S : j <= i

\* C12: after a call that wrote a byte to the transport, getState is the
\* decode of the last byte written, also when a later send of the call failed.
C12_StateIsLastWritten ==
    Written(io) # {} => getState = Decode(relaynumber, io[Last(Written(io))].b)

\* C13: getState, getrx, getRelayNumber, getSpeed and getPort make no
\* transport write or read and leave port, baud rate, relay count and both
\* buffers as they were; getSpeed returns 9600 in every state.
C13_Accessors ==
    /\ call.name \in {"getState", "getrx", "getRelayNumber", "getSpeed", "getPort"}
           => /\ io = << >>
              /\ device = call.port0
              /\ relaynumber = call.relay0
              /\ bufferrx = call.rx0
              /\ buffertx = call.tx0
              /\ dev = call.dev0
    /\ call.name = "getSpeed" => call.ret = 9600
    /\ getSpeed = 9600

C13_Witness ==
    /\ call.name = "getState" /\ call.ret = 1
    /\ relaynumber = 8 /\ buffertx[0] = 254 /\ call.tx0[0] = 254

\* arr with every nonzero entry replaced by 1
Normalise(arr) == [i \in 1..Len(arr) |-> IF arr[i] # 0 THEN 1 ELSE 0]

\* C14: the byte setState(A) writes, A of N integer entries, N in {2,4,8},
\* is the byte it writes for A with every nonzero entry replaced by 1.
C14_NonzeroIsOn ==
    (call.name = "setStateArray" /\ call.relay0 \in Boards)
        => /\ Ops(io) = <<"w">>
           /\ io[1].b = encodeArray(call.relay0, Normalise(call.arr))

\* C15: getState() right after a successful setState(A), A of N entries in
\* {0,1}, N in {2,4,8}, returns the byte whose bit i is A[i] for i < N and
\* whose bits N..7 are 0.
C15_ArrayRoundTrip ==
    (call.name = "setStateArray" /\ call.ret = 1 /\ call.relay0 \in Boards
        /\ \A i \in 1..Len(call.arr) : call.arr[i] \in {0, 1})
        => getState = MaskOf(call.arr)

\* C16: after an initBoard that returned 1 on a sentinel, getState() is 0
\* (all relays off) for the 2, the 4 and the 8 relay board.
C16_AllOffAfterInit ==
    (call.name = "initBoard" /\ call.ret = 1 /\ Len(io) >= 2
        /\ io[2].b \in {173, 171, 172})
        => getState = 0

\* the reads of log that delivered a byte
Delivered(log) == {i \in 1..Len(log) : log[i].op = "r" /\ log[i].st = 1}

\* C17: after a recieve call in which a read succeeded, getrx() is the byte
\* of the most recent successful read, also when a later read failed.
C17_LastReceived ==
    (call.name = "recieve" /\ Delivered(io) # {})
        => getrx = io[Last(Delivered(io))].b

\* C18: an initBoard that reports failure leaves relaynumber as it was; only
\* an initBoard that reports success changes relaynumber.
C18_CountOnlyOnSuccess ==
    /\ (call.name = "initBoard" /\ call.ret # 1) => relaynumber = call.relay0
    /\ relaynumber # call.relay0 => (call.name = "initBoard" /\ call.ret = 1)

\* the calls that insert into a history buffer
Inserting == {"send", "recieve", "initBoard", "setState", "setStateArray"}

\* C19: an insert into a history buffer stores only to its cells 0..C-1; a
\* recieve leaves the transmit buffer and a send the receive buffer as they
\* were.
C19_InsertInBounds ==
    /\ call.name \in Inserting => call.top < BufLen
    /\ call.name = "recieve" => buffertx = call.tx0
    /\ call.name \in {"send", "setState", "setStateArray"} => bufferrx = call.rx0

\* the calls that talk to the board
Talking == Inserting \cup {"recieveNone", "fault"}

\* C20: a send, recieve, setState or initBoard issued while the device is
\* not open never returns 1 and never changes relaynumber.
C20_NotConnected ==
    (call.name \in Talking /\ call.dev0 # "open")
        => /\ call.ret # 1
           /\ relaynumber = call.relay0

====
